---- MODULE Spec2Model ----
(***************************************************************************)
(* Model of internal/ldappool: the channel based LDAP connection pool      *)
(* (channel.go) on top of the server pool with availability checks         *)
(* (server.go), as used by the squid external acl helpers.                 *)
(*                                                                         *)
(* Goroutines are the processes of Procs.  Every method of channelPool is  *)
(* split into steps at the places where it reads or writes state shared    *)
(* with other goroutines (c.conns, the channel, a connection); a method's  *)
(* position is pc[p], its locals are ref[p], cur[p], sel[p].               *)
(*                                                                         *)
(* Spec runs the connection pool, with serverPool.Get as one step of       *)
(* NewConn.  SrvSpec runs the server pool alone, serverPool.Get statement  *)
(* by statement (locals in fas[p]), to expose what its unlocked reads and  *)
(* writes of alive, lastCheck and lastUsed allow.                          *)
(***************************************************************************)
EXTENDS Integers, Sequences, FiniteSets, TLC

\* ---------------------------------------------------------------- bounds
NumProcs == 2           \* goroutines calling into the pool
NumServers == 1         \* len(c.servers)
MaxCapacity == 2        \* largest maxCap passed to NewChannelPool
MaxWraps == 2           \* PoolConn wrappers created over a run
MaxCloses == 2          \* times Close is called on one PoolConn
MaxTime == 1            \* clock ticks
CheckRetryTimeout == 1  \* checkRetryTimeout, in clock ticks
SrvPoolSize == 2        \* len(c.servers) where the server pool is run alone
MaxLines == 2           \* request lines read from stdin over a run

\* ------------------------------------------------------ program constants
FIRST == 0
RR == 1
Counter == 3
LDAPResultTimeLimitExceeded == 3
LDAPResultNoSuchObject == 32
LDAPResultInvalidCredentials == 49
ErrorNetwork == 200

Procs == 1..NumProcs
Servers == 0..(NumServers - 1)
SrvServers == 0..(SrvPoolSize - 1)
ConnIds == 1..(MaxCapacity + MaxWraps)
\* result codes an operation on a wrapped connection reports (an operation
\* without error leaves the wrapper as LDAPResultNoSuchObject does)
Codes == {LDAPResultTimeLimitExceeded, LDAPResultNoSuchObject,
          LDAPResultInvalidCredentials, ErrorNetwork}
\* closeAt as passed by startChecker
CloseAt == {LDAPResultTimeLimitExceeded, ErrorNetwork, LDAPResultInvalidCredentials}

VARIABLES
    built,       \* "new" | "filling" | "ready" | "failed": NewChannelPool's progress
    fillLeft,    \* iterations left of NewChannelPool's fill loop
    maxCap,      \* cap(c.conns)
    connsNil,    \* c.conns == nil
    chanBuf,     \* the buffered elements of the channel made by NewChannelPool
    chanClosed,  \* close() was called on that channel
    nConns,      \* number of ldap connections dialed so far (ids 1..nConns)
    connState,   \* per connection: "none" | "open" | "broken" | "closed"
    wraps,       \* the PoolConn wrappers created so far: [conn, unusable, closes]
    pc, ref, cur, sel,   \* per goroutine: position and locals
    via,         \* per goroutine: how its Get reached NewConn ("empty" | "dead")
    ret,         \* per goroutine: how its last call ended: "ErrClosed" (Get),
                 \* "full" (put closed the connection on a full buffer), "other"
    closeDone,   \* some channelPool.Close call has returned
    panicked,    \* the process died of a runtime panic
    alive, lastCheck, lastUsed, strategy,   \* serverPool
    up,          \* environment: server accepts TCP connections
    now,         \* environment: time.Now()
    args,        \* the initialCap and maxCap NewChannelPool was called with
    fas,         \* per goroutine: the locals of its serverPool.Get call
    evals,       \* per goroutine and server: candidates examined in its call
    lastProbe,   \* per server: the probe that wrote lastCheck last
    failedAt,    \* per server: lastCheck of its latest failed probe, or -1
    anyFailed,   \* some probe has failed
    helper,      \* which helper runs: "group" (ext-acl-ldap-group) or "ou"
    hreq,        \* per goroutine: the doRequest call it runs
    responseChan,   \* the lines buffered in responseChan
    lines        \* request lines the main loop has dispatched so far

poolVars == <<built, fillLeft, maxCap, connsNil, chanBuf, chanClosed>>
connVars == <<nConns, connState, wraps>>
procVars == <<pc, ref, cur, sel, via, ret>>
srvVars == <<alive, lastCheck, lastUsed, strategy>>
envVars == <<up, now>>
selVars == <<fas, evals, lastProbe, failedAt, anyFailed>>
reqVars == <<helper, hreq, responseChan, lines>>
vars == <<poolVars, connVars, procVars, srvVars, envVars, closeDone, panicked,
          args, selVars, reqVars>>

\* ------------------------------------------------------------ server pool

checkAvailabilityAlways(s) == TRUE

\* server.checkAvailability: net.DialTimeout succeeds
checkAvailability(s) == up[s]

\* findActiveServer: pool_size := len(c.servers)
pool_size == Cardinality(DOMAIN alive)

\* findActiveServer's offset for the index-th server of a pass
Offset(index, starting) ==
    IF index + starting < pool_size THEN index + starting
    ELSE index + starting - pool_size

\* findActiveServer's backoff test: a dead server checked less than
\* checkRetryTimeout ago is skipped
SkipDead(al, lc, o) == ~al[o] /\ (now - lc[o] < CheckRetryTimeout)

\* the 3 passes of findActiveServer, k counting the candidates examined
RECURSIVE Scan(_, _, _, _)
Scan(k, starting, al, lc) ==
    IF k = Counter * pool_size
    THEN [ok |-> FALSE, idx |-> 0, alive |-> al, lastCheck |-> lc]
    ELSE LET o == Offset(k % pool_size, starting)
             lc2 == [lc EXCEPT ![o] = now]
         IN  IF SkipDead(al, lc, o) THEN Scan(k + 1, starting, al, lc)
             ELSE IF checkAvailability(o)
                  THEN [ok |-> TRUE, idx |-> o,
                        alive |-> [al EXCEPT ![o] = TRUE], lastCheck |-> lc2]
                  ELSE Scan(k + 1, starting, [al EXCEPT ![o] = FALSE], lc2)

StartingPastEnd(starting) == starting

\* findActiveServer: if starting >= len(c.servers) { starting = 0 }
Starting(starting) == IF starting >= pool_size THEN 0 ELSE starting

findActiveServer(starting) == Scan(0, Starting(starting), alive, lastCheck)

GetStartAlwaysNext(st, lu) == lu + 1

\* serverPool.Get: the index its scan is asked to start at
GetStart(st, lu) == IF st = RR THEN lu + 1 ELSE 0

\* serverPool.Get: the result of the selection and the server state it leaves
ServerPoolGet == findActiveServer(GetStart(strategy, lastUsed))

\* ldap.Dial / ldap.DialTLS to the selected server
DialOk(s) == up[s]

\* -------------------------------------------------------- connection pool

\* getConns: the value of c.conns
PoolRef == IF connsNil THEN "nil" ELSE "ch"

GetSeesClosedNever(conns) == FALSE

\* Get: conns == nil
GetSeesClosed(conns) == conns = "nil"

\* a receive from conns can proceed (a nil channel never can)
RecvReady(conns) == conns = "ch" /\ (chanBuf # <<>> \/ chanClosed)

SelectNoDefault(conns) == FALSE

\* Get's select takes its default clause
SelectDefault(conns) == ~RecvReady(conns)

isAliveAlways(c) == TRUE

\* isAlive: the no-op search on the connection returns no error
isAlive(c) == connState[c] = "open"

ChanFullOffByOne(buf) == Len(buf) > maxCap

ChanFullEarly(buf) == Len(buf) + 1 >= maxCap

\* put's select: the send cannot proceed because the buffer is full
ChanFull(buf) == Len(buf) >= maxCap

\* put: c.conns == nil
PutSeesClosed(conns) == conns = "nil"

CloseNoopNever(conns) == FALSE

\* Close: conns == nil
CloseNoop(conns) == conns = "nil"

\* the value Close stores into c.conns
ClosedRef == TRUE

\* PoolConn: the result code of the most recent operation is one of closeAt
autoClose(code) == code \in CloseAt

\* PoolConn.Close: the wrapper is unusable
Unusable(w, code) == IF w.closes = 0 THEN autoClose(code) ELSE w.unusable

\* Len
PoolLen == IF connsNil THEN 0 ELSE Len(chanBuf)

\* wrapConn
wrapConn(c) == [conn |-> c, unusable |-> FALSE, closes |-> 0]

Range(s) == {s[i] : i \in 1..Len(s)}

\* the locals of a goroutine that is not in serverPool.Get
NoCall == [starting |-> 0, i |-> 0, index |-> 0, offset |-> 0, t |-> 0,
           res |-> "none"]
\* no probe has written lastCheck since NewServerPool
NoProbe == [by |-> 0, res |-> "none"]
\* a goroutine that runs no doRequest
NoRequest == [stage |-> "none", id |-> 0, w |-> 0, err |-> 0, resp |-> <<>>]
\* a server not examined in a call
NoEval == [n |-> 0, last |-> "none"]

Running == built = "ready" /\ ~panicked
GetPcs == {"get_select", "get_probe", "newconn", "dial"}
InFlight == Cardinality({p \in Procs : pc[p] \in GetPcs})

\* connections held through a PoolConn that was not closed yet
CheckedOut == {wraps[i].conn : i \in {j \in 1..Len(wraps) : wraps[j].closes = 0}}
\* number of PoolConn wrappers handed out and not closed yet
NumCheckedOut == Cardinality({j \in 1..Len(wraps) : wraps[j].closes = 0})

Init ==
    /\ built = "new" /\ fillLeft = 0 /\ maxCap = 0
    /\ connsNil = TRUE /\ chanBuf = <<>> /\ chanClosed = FALSE
    /\ nConns = 0 /\ connState = [c \in ConnIds |-> "none"]
    /\ wraps = <<>>
    /\ pc = [p \in Procs |-> "idle"] /\ ref = [p \in Procs |-> "nil"]
    /\ cur = [p \in Procs |-> 0] /\ sel = [p \in Procs |-> 0]
    /\ via = [p \in Procs |-> "none"] /\ ret = [p \in Procs |-> "other"]
    /\ closeDone = FALSE /\ panicked = FALSE
    /\ alive = [s \in Servers |-> TRUE] /\ lastCheck = [s \in Servers |-> 0]
    /\ lastUsed = -1 /\ strategy = RR
    /\ up = [s \in Servers |-> TRUE] /\ now = 0
    /\ args = [initialCap |-> 0, maxCap |-> 0]
    /\ fas = [p \in Procs |-> NoCall]
    /\ evals = [p \in Procs |-> [s \in Servers |-> NoEval]]
    /\ lastProbe = [s \in Servers |-> NoProbe]
    /\ failedAt = [s \in Servers |-> -1]
    /\ anyFailed = FALSE
    /\ helper = "group" /\ hreq = [p \in Procs |-> NoRequest]
    /\ responseChan = <<>> /\ lines = 0

InvalidCapacityLax(initialCap, mc) == initialCap < 0 \/ mc <= 0

\* NewChannelPool: the capacity settings are rejected
InvalidCapacity(initialCap, mc) == initialCap < 0 \/ mc <= 0 \/ initialCap > mc

DrainCloseNone(cs, buf) == cs

\* Close: for conn := range conns { conn.Close() }, all iterations
DrainClose(cs, buf) ==
    [c \in ConnIds |-> IF c \in Range(buf) THEN "closed" ELSE cs[c]]

\* NewChannelPool up to its fill loop
NewChannelPool(initialCap, mc) ==
    /\ built = "new" /\ ~panicked
    /\ args' = [initialCap |-> initialCap, maxCap |-> mc]
    /\ IF InvalidCapacity(initialCap, mc)
       THEN /\ built' = "failed"
            /\ UNCHANGED <<fillLeft, maxCap, connsNil>>
       ELSE /\ maxCap' = mc
            /\ connsNil' = FALSE
            /\ fillLeft' = initialCap
            /\ built' = IF initialCap = 0 THEN "ready" ELSE "filling"
    /\ UNCHANGED <<chanBuf, chanClosed, connVars, procVars, srvVars, envVars,
                   closeDone, panicked>>
    /\ UNCHANGED <<selVars, reqVars>>

\* one iteration of NewChannelPool's fill loop: NewConn, then the send, or
\* c.Close() and the error
FillStep ==
    /\ built = "filling" /\ ~panicked
    /\ LET r == ServerPoolGet IN
       /\ alive' = r.alive /\ lastCheck' = r.lastCheck
       /\ IF r.ok /\ DialOk(r.idx)
          THEN /\ lastUsed' = r.idx
               /\ nConns' = nConns + 1
               /\ connState' = [connState EXCEPT ![nConns + 1] = "open"]
               /\ chanBuf' = Append(chanBuf, nConns + 1)
               /\ fillLeft' = fillLeft - 1
               /\ built' = IF fillLeft = 1 THEN "ready" ELSE "filling"
               /\ UNCHANGED <<connsNil, chanClosed>>
          ELSE /\ lastUsed' = IF r.ok THEN r.idx ELSE lastUsed
               /\ connState' = DrainClose(connState, chanBuf)
               /\ chanBuf' = <<>> /\ chanClosed' = TRUE /\ connsNil' = ClosedRef
               /\ built' = "failed" /\ fillLeft' = 0
               /\ UNCHANGED nConns
    /\ UNCHANGED <<maxCap, wraps, procVars, strategy, envVars,
                   closeDone, panicked>>
    /\ UNCHANGED <<args, selVars, reqVars>>

\* ------------------------------------------------------------------- Get

Return(p, r) ==
    /\ pc' = [pc EXCEPT ![p] = "idle"]
    /\ ref' = [ref EXCEPT ![p] = "nil"]
    /\ cur' = [cur EXCEPT ![p] = 0]
    /\ sel' = [sel EXCEPT ![p] = 0]
    /\ via' = [via EXCEPT ![p] = "none"]
    /\ ret' = [ret EXCEPT ![p] = IF r = "ErrClosed" THEN r ELSE "other"]

\* Get: conns := c.getConns(); if conns == nil return ErrClosed
GetConns(p) ==
    /\ Running /\ pc[p] = "idle"
    /\ Len(wraps) + InFlight < MaxWraps
    /\ IF GetSeesClosed(PoolRef)
       THEN Return(p, "ErrClosed")
       ELSE /\ pc' = [pc EXCEPT ![p] = "get_select"]
            /\ ref' = [ref EXCEPT ![p] = PoolRef]
            /\ ret' = [ret EXCEPT ![p] = "other"]
            /\ UNCHANGED <<cur, sel, via>>
    /\ UNCHANGED <<poolVars, connVars, srvVars, envVars, closeDone, panicked>>
    /\ UNCHANGED <<args, selVars, reqVars>>

\* Get: the select over <-conns and default
GetSelect(p) ==
    /\ Running /\ pc[p] = "get_select"
    /\ \/ /\ RecvReady(ref[p]) /\ chanBuf # <<>>
          /\ chanBuf' = Tail(chanBuf)
          /\ cur' = [cur EXCEPT ![p] = Head(chanBuf)]
          /\ pc' = [pc EXCEPT ![p] = "get_probe"]
          /\ UNCHANGED <<ref, sel, via, ret>>
       \/ /\ RecvReady(ref[p]) /\ chanBuf = <<>>
          /\ Return(p, "ErrClosed")
          /\ UNCHANGED chanBuf
       \/ /\ SelectDefault(ref[p])
          /\ pc' = [pc EXCEPT ![p] = "newconn"]
          /\ via' = [via EXCEPT ![p] = "empty"]
          /\ UNCHANGED <<chanBuf, ref, cur, sel, ret>>
    /\ UNCHANGED <<built, fillLeft, maxCap, connsNil, chanClosed, connVars,
                   srvVars, envVars, closeDone, panicked>>
    /\ UNCHANGED <<args, selVars, reqVars>>

\* Get: isAlive(conn), then wrapConn, or conn.Close() and on to NewConn
GetProbe(p) ==
    /\ Running /\ pc[p] = "get_probe"
    /\ IF isAlive(cur[p])
       THEN /\ wraps' = Append(wraps, wrapConn(cur[p]))
            /\ Return(p, "reused")
            /\ UNCHANGED connState
       ELSE /\ connState' = [connState EXCEPT ![cur[p]] = "closed"]
            /\ pc' = [pc EXCEPT ![p] = "newconn"]
            /\ via' = [via EXCEPT ![p] = "dead"]
            /\ cur' = [cur EXCEPT ![p] = 0]
            /\ UNCHANGED <<wraps, ref, sel, ret>>
    /\ UNCHANGED <<poolVars, nConns, srvVars, envVars,
                   closeDone, panicked>>
    /\ UNCHANGED <<args, selVars, reqVars>>

\* NewConn: c.serverPool.Get()
NewConnSelect(p) ==
    /\ Running /\ pc[p] = "newconn"
    /\ LET r == ServerPoolGet IN
       /\ alive' = r.alive /\ lastCheck' = r.lastCheck
       /\ IF r.ok
          THEN /\ lastUsed' = r.idx
               /\ sel' = [sel EXCEPT ![p] = r.idx]
               /\ pc' = [pc EXCEPT ![p] = "dial"]
               /\ UNCHANGED <<ref, cur, via, ret>>
          ELSE /\ Return(p, "ErrSelect")
               /\ UNCHANGED lastUsed
    /\ UNCHANGED <<poolVars, connVars, strategy, envVars,
                   closeDone, panicked>>
    /\ UNCHANGED <<args, selVars, reqVars>>

\* NewConn: ldap.Dial, SetTimeout, wrapConn
NewConnDial(p) ==
    /\ Running /\ pc[p] = "dial"
    /\ IF DialOk(sel[p])
       THEN /\ nConns' = nConns + 1
            /\ connState' = [connState EXCEPT ![nConns + 1] = "open"]
            /\ wraps' = Append(wraps, wrapConn(nConns + 1))
            /\ Return(p, "fresh")
       ELSE /\ Return(p, "ErrDial")
            /\ UNCHANGED <<nConns, connState, wraps>>
    /\ UNCHANGED <<poolVars, srvVars, envVars,
                   closeDone, panicked>>
    /\ UNCHANGED <<args, selVars, reqVars>>

\* ------------------------------------------- PoolConn (the wrapper) and put

\* PoolConn.Close on a wrapper whose most recent operation reported `code`
\* (a repeated Close finds the wrapper as the first Close left it): the real
\* teardown when the wrapper is unusable, c.put(conn) otherwise
WrapClose(p, w, code) ==
    /\ Running /\ pc[p] = "idle"
    /\ w \in 1..Len(wraps) /\ wraps[w].closes < MaxCloses
    /\ wraps' = [wraps EXCEPT ![w].closes = @ + 1,
                              ![w].unusable = Unusable(wraps[w], code)]
    /\ IF Unusable(wraps[w], code)
       THEN /\ connState' = [connState EXCEPT ![wraps[w].conn] = "closed"]
            /\ UNCHANGED <<pc, cur>>
       ELSE /\ pc' = [pc EXCEPT ![p] = "put"]
            /\ cur' = [cur EXCEPT ![p] = wraps[w].conn]
            /\ UNCHANGED connState
    /\ UNCHANGED <<poolVars, nConns, ref, sel, via, ret, srvVars, envVars,
                   closeDone, panicked>>
    /\ UNCHANGED <<args, selVars, reqVars>>

\* put up to its select: conn.Close() when c.conns == nil, else c.conns is
\* evaluated as the channel of the send
PutCheck(p) ==
    /\ Running /\ pc[p] = "put"
    /\ IF PutSeesClosed(PoolRef)
       THEN /\ connState' = [connState EXCEPT ![cur[p]] = "closed"]
            /\ pc' = [pc EXCEPT ![p] = "idle"]
            /\ cur' = [cur EXCEPT ![p] = 0]
            /\ ret' = [ret EXCEPT ![p] = "other"]
            /\ UNCHANGED ref
       ELSE /\ pc' = [pc EXCEPT ![p] = "put_send"]
            /\ ref' = [ref EXCEPT ![p] = PoolRef]
            /\ UNCHANGED <<connState, cur, ret>>
    /\ UNCHANGED <<poolVars, nConns, wraps, sel, via, srvVars, envVars,
                   closeDone, panicked>>
    /\ UNCHANGED <<args, selVars, reqVars>>

\* put: the select over c.conns <- conn and default
PutSend(p) ==
    /\ Running /\ pc[p] = "put_send"
    /\ IF chanClosed
       THEN \* send on closed channel
            /\ panicked' = TRUE
            /\ pc' = [pc EXCEPT ![p] = "panic"]
            /\ UNCHANGED <<chanBuf, connState, ref, cur, ret>>
       ELSE /\ IF ChanFull(chanBuf)
               THEN /\ connState' = [connState EXCEPT ![cur[p]] = "closed"]
                    /\ ret' = [ret EXCEPT ![p] = "full"]
                    /\ UNCHANGED chanBuf
               ELSE /\ chanBuf' = Append(chanBuf, cur[p])
                    /\ ret' = [ret EXCEPT ![p] = "other"]
                    /\ UNCHANGED connState
            /\ pc' = [pc EXCEPT ![p] = "idle"]
            /\ ref' = [ref EXCEPT ![p] = "nil"]
            /\ cur' = [cur EXCEPT ![p] = 0]
            /\ UNCHANGED panicked
    /\ UNCHANGED <<built, fillLeft, maxCap, connsNil, chanClosed, nConns, wraps,
                   sel, via, srvVars, envVars, closeDone>>
    /\ UNCHANGED <<args, selVars, reqVars>>

\* ----------------------------------------------------------------- Close

\* Close: conns := c.conns
CloseRead(p) ==
    /\ Running /\ pc[p] = "idle"
    /\ pc' = [pc EXCEPT ![p] = "close_write"]
    /\ ref' = [ref EXCEPT ![p] = PoolRef]
    /\ UNCHANGED <<poolVars, connVars, cur, sel, via, ret,
                   srvVars, envVars, closeDone, panicked>>
    /\ UNCHANGED <<args, selVars, reqVars>>

\* Close: c.conns = nil
CloseWrite(p) ==
    /\ Running /\ pc[p] = "close_write"
    /\ connsNil' = ClosedRef
    /\ pc' = [pc EXCEPT ![p] = "close_chan"]
    /\ UNCHANGED <<built, fillLeft, maxCap, chanBuf, chanClosed, connVars, ref,
                   cur, sel, via, ret, srvVars, envVars,
                   closeDone, panicked>>
    /\ UNCHANGED <<args, selVars, reqVars>>

\* Close: if conns == nil return; close(conns)
CloseChan(p) ==
    /\ Running /\ pc[p] = "close_chan"
    /\ IF CloseNoop(ref[p])
       THEN /\ pc' = [pc EXCEPT ![p] = "idle"]
            /\ ref' = [ref EXCEPT ![p] = "nil"]
            /\ ret' = [ret EXCEPT ![p] = "other"]
            /\ closeDone' = TRUE
            /\ UNCHANGED <<chanClosed, panicked>>
       ELSE IF ref[p] = "nil" \/ chanClosed
            THEN \* close of nil channel, close of closed channel
                 /\ panicked' = TRUE
                 /\ pc' = [pc EXCEPT ![p] = "panic"]
                 /\ UNCHANGED <<chanClosed, ref, ret, closeDone>>
            ELSE /\ chanClosed' = TRUE
                 /\ pc' = [pc EXCEPT ![p] = "close_drain"]
                 /\ UNCHANGED <<ref, ret, closeDone, panicked>>
    /\ UNCHANGED <<built, fillLeft, maxCap, connsNil, chanBuf, connVars, cur,
                   sel, via, srvVars, envVars>>
    /\ UNCHANGED <<args, selVars, reqVars>>

\* Close: one iteration of for conn := range conns { conn.Close() }, or the
\* return when the closed channel is empty
CloseDrain(p) ==
    /\ Running /\ pc[p] = "close_drain"
    /\ IF chanBuf # <<>>
       THEN /\ chanBuf' = Tail(chanBuf)
            /\ connState' = [connState EXCEPT ![Head(chanBuf)] = "closed"]
            /\ UNCHANGED <<pc, ref, ret, closeDone>>
       ELSE /\ pc' = [pc EXCEPT ![p] = "idle"]
            /\ ref' = [ref EXCEPT ![p] = "nil"]
            /\ ret' = [ret EXCEPT ![p] = "other"]
            /\ closeDone' = TRUE
            /\ UNCHANGED <<chanBuf, connState>>
    /\ UNCHANGED <<built, fillLeft, maxCap, connsNil, chanClosed, nConns, wraps,
                   cur, sel, via, srvVars, envVars, panicked>>
    /\ UNCHANGED <<args, selVars, reqVars>>

\* ------------------------------------- serverPool.Get, statement by statement

\* the state NewServerPool leaves, no channel pool made yet
SrvInit ==
    /\ built = "new" /\ fillLeft = 0 /\ maxCap = 0
    /\ connsNil = TRUE /\ chanBuf = <<>> /\ chanClosed = FALSE
    /\ nConns = 0 /\ connState = [c \in ConnIds |-> "none"]
    /\ wraps = <<>>
    /\ pc = [p \in Procs |-> "idle"] /\ ref = [p \in Procs |-> "nil"]
    /\ cur = [p \in Procs |-> 0] /\ sel = [p \in Procs |-> 0]
    /\ via = [p \in Procs |-> "none"] /\ ret = [p \in Procs |-> "other"]
    /\ closeDone = FALSE /\ panicked = FALSE
    /\ alive = [s \in SrvServers |-> TRUE]
    /\ lastCheck = [s \in SrvServers |-> 0]
    /\ lastUsed = -1 /\ strategy \in {FIRST, RR}
    /\ up = [s \in SrvServers |-> TRUE] /\ now = 0
    /\ args = [initialCap |-> 0, maxCap |-> 0]
    /\ fas = [p \in Procs |-> NoCall]
    /\ evals = [p \in Procs |-> [s \in SrvServers |-> NoEval]]
    /\ lastProbe = [s \in SrvServers |-> NoProbe]
    /\ failedAt = [s \in SrvServers |-> -1]
    /\ anyFailed = FALSE
    /\ helper = "group" /\ hreq = [p \in Procs |-> NoRequest]
    /\ responseChan = <<>> /\ lines = 0

FasPcs == {"fas_check", "fas_stamp", "fas_probe"}

ContinueFourPasses(f) ==
    IF f.index < pool_size - 1 THEN [f EXCEPT !.index = @ + 1]
    ELSE IF f.i + 1 < Counter + 1 THEN [f EXCEPT !.i = @ + 1, !.index = 0]
    ELSE [NoCall EXCEPT !.res = "err"]

\* findActiveServer's loops after a candidate was skipped or failed its
\* probe: the next candidate, the next pass, or the error after 3 passes
Continue(f) ==
    IF f.index < pool_size - 1 THEN [f EXCEPT !.index = @ + 1]
    ELSE IF f.i + 1 < Counter THEN [f EXCEPT !.i = @ + 1, !.index = 0]
    ELSE [NoCall EXCEPT !.res = "err"]

\* where the goroutine stands with the locals Continue left
PcOf(f) == IF f.res = "err" THEN "idle" ELSE "fas_check"

\* serverPool.Get up to the first candidate of findActiveServer
ServerGet(p) ==
    /\ ~panicked /\ pc[p] = "idle"
    /\ pc' = [pc EXCEPT ![p] = "fas_check"]
    /\ fas' = [fas EXCEPT ![p] =
                 [NoCall EXCEPT !.starting = Starting(GetStart(strategy, lastUsed))]]
    /\ evals' = [evals EXCEPT ![p] = [s \in DOMAIN alive |-> NoEval]]
    /\ UNCHANGED <<poolVars, connVars, ref, cur, sel, via, ret, srvVars, envVars,
                   closeDone, panicked, args, lastProbe, failedAt, anyFailed>>
    /\ UNCHANGED reqVars

\* findActiveServer: the offset of the candidate and the backoff test
FasCheck(p) ==
    /\ ~panicked /\ pc[p] = "fas_check"
    /\ LET o == Offset(fas[p].index, fas[p].starting)
           f == [fas[p] EXCEPT !.offset = o]
       IN  IF SkipDead(alive, lastCheck, o)
           THEN /\ fas' = [fas EXCEPT ![p] = Continue(f)]
                /\ pc' = [pc EXCEPT ![p] = PcOf(Continue(f))]
                /\ evals' = [evals EXCEPT ![p][o] =
                               [n |-> @.n + 1, last |-> "skip"]]
           ELSE /\ fas' = [fas EXCEPT ![p] = f]
                /\ pc' = [pc EXCEPT ![p] = "fas_stamp"]
                /\ evals' = [evals EXCEPT ![p][o] =
                               [n |-> @.n + 1, last |-> "none"]]
    /\ UNCHANGED <<poolVars, connVars, ref, cur, sel, via, ret, srvVars, envVars,
                   closeDone, panicked, args, lastProbe, failedAt, anyFailed>>
    /\ UNCHANGED reqVars

\* findActiveServer: c.servers[offset].lastCheck = time.Now()
FasStamp(p) ==
    /\ ~panicked /\ pc[p] = "fas_stamp"
    /\ lastCheck' = [lastCheck EXCEPT ![fas[p].offset] = now]
    /\ lastProbe' = [lastProbe EXCEPT ![fas[p].offset] =
                       [by |-> p, res |-> "pending"]]
    /\ fas' = [fas EXCEPT ![p].t = now]
    /\ pc' = [pc EXCEPT ![p] = "fas_probe"]
    /\ UNCHANGED <<poolVars, connVars, ref, cur, sel, via, ret, alive, lastUsed,
                   strategy, envVars, closeDone, panicked, args, evals,
                   failedAt, anyFailed>>
    /\ UNCHANGED reqVars

\* findActiveServer: checkAvailability and the write of alive, then the
\* return of offset or the next candidate
FasProbe(p) ==
    /\ ~panicked /\ pc[p] = "fas_probe"
    /\ LET o == fas[p].offset
           answered == up[o]
           outcome == IF answered THEN "ok" ELSE "fail"
       IN  /\ alive' = [alive EXCEPT ![o] = checkAvailability(o)]
           /\ IF checkAvailability(o)
              THEN /\ pc' = [pc EXCEPT ![p] = "get_ret"]
                   /\ fas' = fas
              ELSE /\ fas' = [fas EXCEPT ![p] = Continue(fas[p])]
                   /\ pc' = [pc EXCEPT ![p] = PcOf(Continue(fas[p]))]
           /\ evals' = [evals EXCEPT ![p][o].last = outcome]
           /\ lastProbe' = IF lastProbe[o].by = p
                           THEN [lastProbe EXCEPT ![o] =
                                   [by |-> 0, res |-> outcome]]
                           ELSE lastProbe
           /\ failedAt' = IF ~answered /\ fas[p].t > failedAt[o]
                          THEN [failedAt EXCEPT ![o] = fas[p].t]
                          ELSE failedAt
           /\ anyFailed' = (anyFailed \/ ~answered)
    /\ UNCHANGED <<poolVars, connVars, ref, cur, sel, via, ret, lastCheck,
                   lastUsed, strategy, envVars, closeDone, panicked, args>>
    /\ UNCHANGED reqVars

serverIndexNext(f) == f.offset + 1

\* serverPool.Get: serverIndex, the index findActiveServer returned
serverIndex(f) == f.offset

\* serverPool.Get: c.lastUsed = serverIndex and the return of the address
ServerGetReturn(p) ==
    /\ ~panicked /\ pc[p] = "get_ret"
    /\ lastUsed' = serverIndex(fas[p])
    /\ fas' = [fas EXCEPT ![p] =
                 [NoCall EXCEPT !.offset = fas[p].offset, !.res = "ok"]]
    /\ pc' = [pc EXCEPT ![p] = "idle"]
    /\ evals' = [evals EXCEPT ![p] = [s \in DOMAIN alive |-> NoEval]]
    /\ UNCHANGED <<poolVars, connVars, ref, cur, sel, via, ret, alive, lastCheck,
                   strategy, envVars, closeDone, panicked, args,
                   lastProbe, failedAt, anyFailed>>
    /\ UNCHANGED reqVars

\* ------------------------------------------ the helpers: doRequest per line

\* the state startChecker leaves before its loop: NewServerPool with
\* roundrobin, then NewChannelPool(0, maxCap) with maxCap a multiple of the
\* number of servers (100 in the group helper, 1 in the ou helper)
ReqInit ==
    /\ built = "ready" /\ fillLeft = 0 /\ maxCap = MaxCapacity
    /\ connsNil = FALSE /\ chanBuf = <<>> /\ chanClosed = FALSE
    /\ nConns = 0 /\ connState = [c \in ConnIds |-> "none"]
    /\ wraps = <<>>
    /\ pc = [p \in Procs |-> "idle"] /\ ref = [p \in Procs |-> "nil"]
    /\ cur = [p \in Procs |-> 0] /\ sel = [p \in Procs |-> 0]
    /\ via = [p \in Procs |-> "none"] /\ ret = [p \in Procs |-> "other"]
    /\ closeDone = FALSE /\ panicked = FALSE
    /\ alive = [s \in Servers |-> TRUE] /\ lastCheck = [s \in Servers |-> 0]
    /\ lastUsed = -1 /\ strategy = RR
    /\ up = [s \in Servers |-> TRUE] /\ now = 0
    /\ args = [initialCap |-> 0, maxCap |-> MaxCapacity]
    /\ fas = [p \in Procs |-> NoCall]
    /\ evals = [p \in Procs |-> [s \in Servers |-> NoEval]]
    /\ lastProbe = [s \in Servers |-> NoProbe]
    /\ failedAt = [s \in Servers |-> -1]
    /\ anyFailed = FALSE
    /\ helper \in {"group", "ou"}
    /\ hreq = [p \in Procs |-> NoRequest]
    /\ responseChan = <<>> /\ lines = 0

\* log.Fatal was called: the process has exited
Exited == \E p \in Procs : hreq[p].stage = "fatal"
HelperRuns == ~Exited /\ ~panicked

\* printPositiveResult / printNegativeResult: the line with or without id
ResultLine(id, ok) == [id |-> id, ok |-> ok]

\* doRequest is in a call of the pool or about to be
Acquiring == Cardinality({p \in Procs : hreq[p].stage = "get"})

\* startChecker's loop: a line from stdinLineChan, then go doRequest when
\* the line starts with a numeric id, or doRequest in the loop itself, which
\* reads no further line until that call returns
Dispatch(p, concurrency) ==
    /\ HelperRuns /\ hreq[p].stage \in {"none", "done"}
    /\ lines < MaxLines /\ Len(wraps) + Acquiring < MaxWraps
    /\ \A q \in Procs : hreq[q].id = 0 => hreq[q].stage \in {"none", "done"}
    /\ lines' = lines + 1
    /\ hreq' = [hreq EXCEPT ![p] =
                  [NoRequest EXCEPT !.stage = "get",
                                    !.id = IF concurrency THEN lines + 1 ELSE 0]]
    /\ UNCHANGED <<poolVars, connVars, procVars, srvVars, envVars, closeDone,
                   panicked, args, selVars, helper, responseChan>>

\* doRequest of the group helper: the cache holds the answer
ReqCached(p, found) ==
    /\ HelperRuns /\ hreq[p].stage = "get" /\ helper = "group"
    /\ responseChan' = Append(responseChan, ResultLine(hreq[p].id, found))
    /\ hreq' = [hreq EXCEPT ![p].stage = "done",
                            ![p].resp = Append(@, ResultLine(hreq[p].id, found))]
    /\ UNCHANGED <<poolVars, connVars, procVars, srvVars, envVars, closeDone,
                   panicked, args, selVars, helper, lines>>

\* doRequest: conn, err := ldapConnPool.Get(), the whole call in one step;
\* log.Fatal on its error
ReqGet(p) ==
    /\ HelperRuns /\ hreq[p].stage = "get"
    /\ IF GetSeesClosed(PoolRef)
       THEN /\ hreq' = [hreq EXCEPT ![p].stage = "fatal"]
            /\ UNCHANGED <<chanBuf, connVars, srvVars>>
       ELSE IF RecvReady(PoolRef) /\ chanBuf # <<>> /\ isAlive(Head(chanBuf))
       THEN /\ chanBuf' = Tail(chanBuf)
            /\ wraps' = Append(wraps, wrapConn(Head(chanBuf)))
            /\ hreq' = [hreq EXCEPT ![p].stage = "bind", ![p].w = Len(wraps) + 1]
            /\ UNCHANGED <<nConns, connState, srvVars>>
       ELSE LET r == ServerPoolGet
                dropped == IF chanBuf # <<>>
                           THEN [connState EXCEPT ![Head(chanBuf)] = "closed"]
                           ELSE connState
            IN  /\ chanBuf' = IF chanBuf # <<>> THEN Tail(chanBuf) ELSE chanBuf
                /\ alive' = r.alive /\ lastCheck' = r.lastCheck
                /\ lastUsed' = IF r.ok THEN r.idx ELSE lastUsed
                /\ UNCHANGED strategy
                /\ IF r.ok /\ DialOk(r.idx)
                   THEN /\ nConns' = nConns + 1
                        /\ connState' = [dropped EXCEPT ![nConns + 1] = "open"]
                        /\ wraps' = Append(wraps, wrapConn(nConns + 1))
                        /\ hreq' = [hreq EXCEPT ![p].stage = "bind",
                                                ![p].w = Len(wraps) + 1]
                   ELSE /\ connState' = dropped
                        /\ hreq' = [hreq EXCEPT ![p].stage = "fatal"]
                        /\ UNCHANGED <<nConns, wraps>>
    /\ UNCHANGED <<built, fillLeft, maxCap, connsNil, chanClosed, procVars,
                   envVars, closeDone, panicked, args, selVars, helper,
                   responseChan, lines>>

\* doRequest: conn.Bind and the handling of its error (err = 0: no error):
\* log.Fatal on invalid credentials, else the return, which the group
\* helper precedes by printNegativeResult; defer conn.Close() comes after
\* this return in both helpers
ReqBind(p, err) ==
    /\ HelperRuns /\ hreq[p].stage = "bind"
    /\ IF err = 0
       THEN /\ hreq' = [hreq EXCEPT ![p].stage = "search", ![p].err = err]
            /\ UNCHANGED responseChan
       ELSE IF err = LDAPResultInvalidCredentials
       THEN /\ hreq' = [hreq EXCEPT ![p].stage = "fatal", ![p].err = err]
            /\ UNCHANGED responseChan
       ELSE IF helper = "group"
       THEN /\ responseChan' = Append(responseChan, ResultLine(hreq[p].id, FALSE))
            /\ hreq' = [hreq EXCEPT ![p].stage = "done", ![p].err = err,
                           ![p].resp = Append(@, ResultLine(hreq[p].id, FALSE))]
       ELSE /\ hreq' = [hreq EXCEPT ![p].stage = "done", ![p].err = err]
            /\ UNCHANGED responseChan
    /\ UNCHANGED <<poolVars, connVars, procVars, srvVars, envVars, closeDone,
                   panicked, args, selVars, helper, lines>>

\* the answer doRequest gives after a search with error err that found n
\* entries: "next" for the group helper's second search, else OK or ERR
SearchAnswer(stage, err, n) ==
    IF helper = "ou" THEN (IF n > 0 THEN "OK" ELSE "ERR")
    ELSE IF err # 0 THEN "ERR"
    ELSE IF stage = "search" THEN (IF n = 1 THEN "next" ELSE "ERR")
    ELSE (IF n > 0 THEN "OK" ELSE "ERR")

\* doRequest: conn.Search, its result handling and the response (err = 0: no
\* error; srNil: the search returned no result object with its error, which
\* the ou helper dereferences)
ReqSearch(p, err, n, srNil) ==
    /\ HelperRuns /\ hreq[p].stage \in {"search", "search2"}
    /\ (err = 0 => ~srNil) /\ (srNil => n = 0)
    /\ IF helper = "ou" /\ srNil
       THEN /\ panicked' = TRUE
            /\ hreq' = [hreq EXCEPT ![p].stage = "panic", ![p].err = err]
            /\ UNCHANGED responseChan
       ELSE /\ UNCHANGED panicked
            /\ LET a == SearchAnswer(hreq[p].stage, err, n) IN
               IF a = "next"
               THEN /\ hreq' = [hreq EXCEPT ![p].stage = "search2", ![p].err = err]
                    /\ UNCHANGED responseChan
               ELSE /\ responseChan' =
                         Append(responseChan, ResultLine(hreq[p].id, a = "OK"))
                    /\ hreq' = [hreq EXCEPT ![p].stage = "close", ![p].err = err,
                           ![p].resp = Append(@, ResultLine(hreq[p].id, a = "OK"))]
    /\ UNCHANGED <<poolVars, connVars, procVars, srvVars, envVars, closeDone,
                   args, selVars, helper, lines>>

\* doRequest returns: the deferred conn.Close(), PoolConn.Close and put in
\* one step
ReqClose(p) ==
    /\ HelperRuns /\ hreq[p].stage = "close"
    /\ LET w == hreq[p].w
           c == wraps[w].conn
           code == IF hreq[p].err = 0 THEN LDAPResultNoSuchObject ELSE hreq[p].err
           torn == Unusable(wraps[w], code) \/ PutSeesClosed(PoolRef)
                   \/ ChanFull(chanBuf)
       IN  /\ wraps' = [wraps EXCEPT ![w].closes = @ + 1,
                                     ![w].unusable = Unusable(wraps[w], code)]
           /\ IF torn
              THEN /\ connState' = [connState EXCEPT ![c] = "closed"]
                   /\ UNCHANGED chanBuf
              ELSE /\ chanBuf' = Append(chanBuf, c)
                   /\ UNCHANGED connState
    /\ hreq' = [hreq EXCEPT ![p].stage = "done"]
    /\ UNCHANGED <<built, fillLeft, maxCap, connsNil, chanClosed, nConns,
                   procVars, srvVars, envVars, closeDone, panicked, args,
                   selVars, helper, responseChan, lines>>

\* writerResponseLines: one line from responseChan to stdout
WriterResponseLines ==
    /\ HelperRuns /\ responseChan # <<>>
    /\ responseChan' = Tail(responseChan)
    /\ UNCHANGED <<poolVars, connVars, procVars, srvVars, envVars, closeDone,
                   panicked, args, selVars, helper, hreq, lines>>

\* ----------------------------------------------------------- environment

\* a server starts or stops accepting connections
Flip(s) ==
    /\ ~panicked /\ built # "failed"
    /\ up' = [up EXCEPT ![s] = ~up[s]]
    /\ UNCHANGED <<poolVars, connVars, procVars, srvVars, now, closeDone,
                   panicked>>
    /\ UNCHANGED <<args, selVars, reqVars>>

\* time passes
Tick ==
    /\ ~panicked /\ built # "failed"
    /\ now < MaxTime
    /\ now' = now + 1
    /\ UNCHANGED <<poolVars, connVars, procVars, srvVars, up, closeDone,
                   panicked>>
    /\ UNCHANGED <<args, selVars, reqVars>>

\* an idle connection dies (peer reset, idle timeout); only isAlive observes it
Break(c) ==
    /\ Running /\ connState[c] = "open" /\ c \in Range(chanBuf)
    /\ connState' = [connState EXCEPT ![c] = "broken"]
    /\ UNCHANGED <<poolVars, nConns, wraps, procVars, srvVars,
                   envVars, closeDone, panicked>>
    /\ UNCHANGED <<args, selVars, reqVars>>

Next ==
    \/ \E ic \in -1..(MaxCapacity + 1), mc \in 0..MaxCapacity : NewChannelPool(ic, mc)
    \/ FillStep
    \/ \E p \in Procs : GetConns(p)
    \/ \E p \in Procs : GetSelect(p)
    \/ \E p \in Procs : GetProbe(p)
    \/ \E p \in Procs : NewConnSelect(p)
    \/ \E p \in Procs : NewConnDial(p)
    \/ \E p \in Procs, w \in 1..MaxWraps, code \in Codes : WrapClose(p, w, code)
    \/ \E p \in Procs : PutCheck(p)
    \/ \E p \in Procs : PutSend(p)
    \/ \E p \in Procs : CloseRead(p)
    \/ \E p \in Procs : CloseWrite(p)
    \/ \E p \in Procs : CloseChan(p)
    \/ \E p \in Procs : CloseDrain(p)
    \/ \E s \in Servers : Flip(s)
    \/ Tick
    \/ \E c \in ConnIds : Break(c)

Spec == Init /\ [][Next]_vars

\* the server pool alone, called by the goroutines of Procs
SrvNext ==
    \/ \E p \in Procs : ServerGet(p)
    \/ \E p \in Procs : FasCheck(p)
    \/ \E p \in Procs : FasStamp(p)
    \/ \E p \in Procs : FasProbe(p)
    \/ \E p \in Procs : ServerGetReturn(p)
    \/ \E s \in SrvServers : Flip(s)
    \/ Tick

SrvSpec == SrvInit /\ [][SrvNext]_vars

\* a helper process: the main loop, its doRequest calls and the writer
ReqNext ==
    \/ \E p \in Procs, concurrency \in BOOLEAN : Dispatch(p, concurrency)
    \/ \E p \in Procs, found \in BOOLEAN : ReqCached(p, found)
    \/ \E p \in Procs : ReqGet(p)
    \/ \E p \in Procs, err \in {0} \cup Codes : ReqBind(p, err)
    \/ \E p \in Procs, err \in {0} \cup Codes, n \in 0..2, srNil \in BOOLEAN :
          ReqSearch(p, err, n, srNil)
    \/ \E p \in Procs : ReqClose(p)
    \/ WriterResponseLines
    \/ \E s \in Servers : Flip(s)
    \/ Tick
    \/ \E c \in ConnIds : Break(c)

ReqSpec == ReqInit /\ [][ReqNext]_vars

TypeOK ==
    /\ built \in {"new", "filling", "ready", "failed"}
    /\ maxCap \in 0..MaxCapacity
    /\ Len(chanBuf) <= MaxCapacity
    /\ nConns \in 0..(MaxCapacity + MaxWraps)
    /\ Len(wraps) <= MaxWraps

\* ------------------------------------------------------------ properties

\* the steps of a Get that is under way
GetStep(p) == GetSelect(p) \/ GetProbe(p) \/ NewConnSelect(p) \/ NewConnDial(p)

\* the no-op search on connection c fails: the transport is dead or torn down
ProbeFails(c) == connState[c] \in {"broken", "closed"}

\* conn.Close() was called on every connection ever dialed
AllTornDown == \A c \in 1..nConns : connState[c] = "closed"

\* C1: once a channelPool.Close call has returned, Len() is 0 and every Get
\* that starts takes no step past the nil test: it returns ErrClosed without
\* selecting a server and without dialing.
C1_AfterCloseAll ==
    /\ [](closeDone => PoolLen = 0)
    /\ [][closeDone => \A p \in Procs : pc[p] = "idle" =>
            /\ pc'[p] \notin GetPcs
            /\ ret'[p] # ret[p] =>
                 /\ ret'[p] = "ErrClosed"
                 /\ UNCHANGED <<nConns, alive, lastCheck, lastUsed, chanBuf>>]_vars

\* every goroutine's last call was a Get that returned ErrClosed, so the one
\* whose Close returned has called Get after that
C1_Witness ==
    /\ closeDone /\ chanClosed /\ Len(wraps) > 0
    /\ \A p \in Procs : pc[p] = "idle" /\ ret[p] = "ErrClosed"

\* C2 as stated: the connections idle in the buffer plus those checked out
\* never exceed the capacity.
C2_Original == Len(chanBuf) + NumCheckedOut <= maxCap

\* C2 amended: the idle buffer never holds more than capacity connections;
\* the checked-out connections are not limited by the capacity, idle and
\* checked-out connections together are only limited by the number dialed.
C2_Amended ==
    /\ Len(chanBuf) <= maxCap
    /\ Cardinality(Range(chanBuf) \cup CheckedOut) <= nConns

\* a full idle buffer while a connection is checked out
C2_Witness ==
    /\ built = "ready" /\ ~connsNil
    /\ Len(chanBuf) = maxCap /\ NumCheckedOut >= 1

\* C3: no connection is held through two PoolConn wrappers that are both
\* not closed, and no connection held through such a wrapper is in the idle
\* buffer.
C3_NoDoubleHandOut ==
    /\ \A i, j \in 1..Len(wraps) :
          (i # j /\ wraps[i].closes = 0 /\ wraps[j].closes = 0)
             => wraps[i].conn # wraps[j].conn
    /\ CheckedOut \cap Range(chanBuf) = {}

\* C4: each connection occurs at most once in the idle buffer.
C4_NoDuplicateIdle ==
    \A i, j \in 1..Len(chanBuf) : i # j => chanBuf[i] # chanBuf[j]

\* C5: a connection whose wrapper was closed after a closeAt result code is
\* torn down and is not in the idle buffer in any later state.
C5_DisposedNeverIdle ==
    \A w \in 1..Len(wraps) :
       (wraps[w].closes >= 1 /\ wraps[w].unusable) =>
          /\ connState[wraps[w].conn] = "closed"
          /\ wraps[w].conn \notin Range(chanBuf)

\* C6: the idle buffer never holds more than capacity connections, a put
\* that reaches its send can always take its step, and on an open pool with
\* a full buffer that step closes the connection, leaves the buffer as it
\* is and returns without a panic.
C6_PutOnFullPool ==
    /\ [](Len(chanBuf) <= maxCap)
    /\ [](\A p \in Procs : (pc[p] = "put" /\ ~panicked) => ENABLED PutCheck(p))
    /\ [](\A p \in Procs : (pc[p] = "put_send" /\ ~panicked) => ENABLED PutSend(p))
    /\ [][\A p \in Procs :
            (/\ pc[p] = "put_send" /\ ~connsNil /\ ~chanClosed
             /\ Len(chanBuf) = maxCap
             /\ pc'[p] # pc[p])
            => /\ connState'[cur[p]] = "closed"
               /\ chanBuf' = chanBuf
               /\ pc'[p] = "idle" /\ ~panicked']_vars

\* a put has just closed its connection on the full buffer of an open pool
C6_Witness ==
    /\ ~connsNil /\ Len(chanBuf) = maxCap
    /\ \E p \in Procs : pc[p] = "idle" /\ ret[p] = "full"

\* C7: when the connection Get took from the idle buffer fails the probe,
\* Get closes it, does not put it back, hands out no wrapper and goes on to
\* NewConn; Get wraps the connection it took only when the probe succeeds.
C7_DeadNeverReturned ==
    [][\A p \in Procs : (pc[p] = "get_probe" /\ pc'[p] # "get_probe") =>
          IF ProbeFails(cur[p])
          THEN /\ connState'[cur[p]] = "closed"
               /\ chanBuf' = chanBuf /\ wraps' = wraps
               /\ pc'[p] = "newconn"
          ELSE /\ wraps' = Append(wraps, wrapConn(cur[p]))
               /\ pc'[p] = "idle"]_vars

\* a Get that discarded a dead connection and is about to dial
C7_Witness ==
    \E p \in Procs : pc[p] \in {"newconn", "dial"} /\ via[p] = "dead"

C9_CloseIdempotent ==
    [][\A p \in Procs :
          (pc[p] \in {"close_write", "close_chan"} /\ ref[p] = "nil"
           /\ pc'[p] # pc[p])
          => /\ UNCHANGED <<connsNil, chanBuf, chanClosed, connState, wraps>>
             /\ ~panicked'
             /\ pc[p] = "close_chan" => pc'[p] = "idle"]_vars

\* a second Close on the closed pool has stored nil again
C9_Witness ==
    /\ closeDone /\ chanClosed
    /\ \E p \in Procs : pc[p] = "close_chan" /\ ref[p] = "nil"

\* C10: a put that reaches its send after Close marked the pool closed ends
\* with the connection closed, or buffered ahead of Close's drain; when the
\* pool is closed, no call is under way and no wrapper is checked out, every
\* connection is torn down.
C10_ClosedPoolHoldsNothing ==
    /\ [][\A p \in Procs :
            (pc[p] = "put_send" /\ connsNil /\ pc'[p] # pc[p])
            => \/ connState'[cur[p]] = "closed"
               \/ ~chanClosed /\ chanBuf' = Append(chanBuf, cur[p])]_vars
    /\ []((/\ built = "ready" /\ connsNil /\ NumCheckedOut = 0
           /\ \A p \in Procs : pc[p] = "idle") => AllTornDown)

\* C11: once NewChannelPool was called with initialCap < 0, maxCap <= 0 or
\* initialCap > maxCap it has failed, and no server was selected or probed,
\* no connection dialed and no channel made.
C11_InvalidCapacityFails ==
    (/\ built # "new"
     /\ \/ args.initialCap < 0
        \/ args.maxCap <= 0
        \/ args.initialCap > args.maxCap)
    => /\ built = "failed"
       /\ nConns = 0 /\ connsNil /\ chanBuf = <<>> /\ ~chanClosed
       /\ lastUsed = -1
       /\ \A s \in Servers : alive[s] /\ lastCheck[s] = 0

\* NewChannelPool(3, 2) of the scenario has failed
C11_Witness ==
    /\ built = "failed"
    /\ args = [initialCap |-> MaxCapacity + 1, maxCap |-> MaxCapacity]

\* the capacity settings NewChannelPool was called with are accepted
ValidArgs ==
    args.initialCap >= 0 /\ args.maxCap > 0 /\ args.initialCap <= args.maxCap

\* C12: with valid capacity settings the fill loop dials one connection per
\* iteration and buffers it; when NewConn fails the connections buffered so
\* far are all closed, the channel is closed and no pool is returned, so no
\* call on it ever starts; the pool is returned exactly when initialCap
\* connections were dialed, and these are all idle and open.
C12_FillFailFast ==
    /\ [](built = "filling" =>
            /\ ValidArgs
            /\ Len(chanBuf) + fillLeft = args.initialCap
            /\ nConns = Len(chanBuf))
    /\ []((built = "failed" /\ ValidArgs) =>
            /\ AllTornDown
            /\ chanBuf = <<>> /\ chanClosed /\ connsNil
            /\ wraps = <<>> /\ \A p \in Procs : pc[p] = "idle")
    /\ [][(built # "ready" /\ built' = "ready") =>
            /\ Len(chanBuf') = args'.initialCap
            /\ nConns' = args'.initialCap
            /\ \A c \in Range(chanBuf') : connState'[c] = "open"
            /\ ~connsNil' /\ ~chanClosed']_vars

\* the second dial of the fill loop failed after the first connection was
\* buffered
C12_Witness ==
    /\ built = "failed" /\ ValidArgs
    /\ nConns >= 1 /\ nConns < args.initialCap

\* C17: the first Close of a wrapper whose last result code is not in
\* closeAt hands its connection to put without closing it; put's send on an
\* open pool whose buffer is not full appends the connection to the idle
\* buffer, which grows by one; a Get that finds the buffer non-empty takes
\* its head, and when the probe of that connection succeeds it returns a
\* wrapper of that same connection without a server selection or a dial.
C17_RecycleAndReuse ==
    /\ [][\A w \in 1..Len(wraps) :
             (wraps[w].closes = 0 /\ wraps'[w].closes = 1 /\ ~wraps'[w].unusable)
             => /\ connState' = connState
                /\ \E p \in Procs : /\ pc[p] = "idle" /\ pc'[p] = "put"
                                     /\ cur'[p] = wraps[w].conn]_vars
    /\ [][\A p \in Procs :
             (/\ pc[p] = "put_send" /\ pc'[p] # pc[p]
              /\ ~connsNil /\ ~chanClosed /\ Len(chanBuf) < maxCap)
             => /\ chanBuf' = Append(chanBuf, cur[p])
                /\ Len(chanBuf') = Len(chanBuf) + 1
                /\ connState' = connState
                /\ pc'[p] = "idle"]_vars
    /\ [][\A p \in Procs :
             (/\ pc[p] = "get_select" /\ pc'[p] # pc[p]
              /\ ref[p] = "ch" /\ chanBuf # <<>>)
             => /\ cur'[p] = Head(chanBuf) /\ pc'[p] = "get_probe"
                /\ UNCHANGED <<nConns, srvVars>>]_vars
    /\ [][\A p \in Procs :
             (/\ pc[p] = "get_probe" /\ pc'[p] # pc[p]
              /\ connState[cur[p]] = "open")
             => /\ wraps' = Append(wraps, wrapConn(cur[p]))
                /\ pc'[p] = "idle"
                /\ UNCHANGED <<nConns, connState, srvVars>>]_vars

\* the one connection ever dialed was released through its first wrapper
\* with a result code outside closeAt and is now checked out through a
\* second wrapper
C17_Witness ==
    /\ built = "ready" /\ ~connsNil /\ chanBuf = <<>>
    /\ args.initialCap = 0 /\ nConns = 1 /\ Len(wraps) = 2
    /\ wraps[1] = [conn |-> 1, unusable |-> FALSE, closes |-> 1]
    /\ wraps[2] = wrapConn(1)
    /\ \A p \in Procs : pc[p] = "idle"

\* C18: the step of put's send never acts on a closed channel: it either
\* appends the connection to the buffer of a channel that is not closed, or
\* closes the connection and leaves the buffer alone, and it never panics.
C18_NoSendOnClosedBuffer ==
    [][\A p \in Procs : (pc[p] = "put_send" /\ pc'[p] # pc[p]) =>
          /\ ~panicked'
          /\ \/ ~chanClosed /\ chanBuf' = Append(chanBuf, cur[p])
             \/ connState'[cur[p]] = "closed" /\ chanBuf' = chanBuf]_vars

\* ---------------------------------------------- properties of the server pool

\* the server a goroutine's findActiveServer has returned to its Get
Returned(p) == fas[p].offset

\* C13: the server a serverPool.Get call returns is one that answered the
\* probe this call made of it last, never one whose latest probe in the call
\* failed, for both strategies and all runs of the servers going up and down.
C13_ReturnedServerProbedOk ==
    /\ [](\A p \in Procs : pc[p] = "get_ret" =>
             evals[p][Returned(p)].last = "ok")
    /\ [][\A p \in Procs : (pc[p] = "get_ret" /\ pc'[p] = "idle") =>
             /\ evals[p][Returned(p)].last = "ok"
             /\ fas'[p].res = "ok" /\ fas'[p].offset = Returned(p)]_vars

\* a call returned server 1 after a probe had failed
C13_Witness ==
    /\ anyFailed
    /\ \E p \in Procs : pc[p] = "idle" /\ fas[p].res = "ok" /\ fas[p].offset = 1

\* C14: no call examines a server more than 3 times; a call in which no
\* probe succeeded ends with the error "no active ldap server found" after
\* every server was examined exactly 3 times, and leaves lastUsed alone; a
\* call leaves findActiveServer without the error only after a probe that
\* succeeded.
C14_Exhaustion ==
    /\ [](\A p \in Procs : \A s \in DOMAIN alive : evals[p][s].n <= Counter)
    /\ [][\A p \in Procs : (pc[p] \in FasPcs /\ pc'[p] \notin FasPcs) =>
             IF \A s \in DOMAIN alive : evals'[p][s].last # "ok"
             THEN /\ pc'[p] = "idle" /\ fas'[p].res = "err"
                  /\ \A s \in DOMAIN alive : evals'[p][s].n = Counter
                  /\ lastUsed' = lastUsed
             ELSE pc'[p] = "get_ret"]_vars

\* a call ended with the error, the last examination of every server being
\* a failed probe
C14_Witness ==
    \E p \in Procs :
       /\ pc[p] = "idle" /\ fas[p].res = "err"
       /\ \A s \in DOMAIN alive : evals[p][s] = [n |-> Counter, last |-> "fail"]

\* C15: no probe of a server starts less than checkRetryTimeout after the
\* start of an earlier probe of that server that failed.
C15_NoProbeWithinBackoff ==
    [][\A p \in Procs : (pc[p] = "fas_stamp" /\ pc'[p] = "fas_probe") =>
          \/ failedAt[fas[p].offset] = -1
          \/ now - failedAt[fas[p].offset] >= CheckRetryTimeout]_vars

\* C16: under RR, as long as no probe has failed, every selection that
\* completes returns the index after the one the selection completed before
\* it returned, starting with 0.
C16_RoundRobinOrder ==
    [][\A p \in Procs :
          (pc[p] = "get_ret" /\ pc'[p] = "idle" /\ strategy = RR /\ ~anyFailed)
          => Returned(p) = (lastUsed + 1) % pool_size]_vars

\* a probe of server s is under way
ProbeInFlight(s) == \E p \in Procs : pc[p] = "fas_probe" /\ fas[p].offset = s

\* C19: when no probe of a server is under way, its alive flag is the
\* outcome of the probe that wrote its lastCheck.
C19_AlivePairConsistent ==
    \A s \in DOMAIN alive :
       (lastProbe[s].res # "none" /\ ~ProbeInFlight(s))
       => /\ lastProbe[s].res \in {"ok", "fail"}
          /\ alive[s] = (lastProbe[s].res = "ok")

\* C20: a call under FIRST starts its scan at index 0 whatever lastUsed is,
\* and the server it returns answered its probe while every server of a
\* lower index was, in the same pass, skipped by the backoff or failed its
\* probe; a call under RR starts at (lastUsed + 1) mod N, which is 0 for the
\* first call after NewServerPool.
C20_StartIndex ==
    /\ [][\A p \in Procs : (pc[p] = "idle" /\ pc'[p] = "fas_check") =>
             /\ fas'[p].starting =
                  IF strategy = FIRST THEN 0 ELSE (lastUsed + 1) % pool_size
             /\ fas'[p].i = 0 /\ fas'[p].index = 0
             /\ (strategy = RR /\ lastUsed = -1) => fas'[p].starting = 0]_vars
    /\ [][\A p \in Procs :
             (pc[p] = "get_ret" /\ pc'[p] = "idle" /\ strategy = FIRST) =>
             /\ evals[p][Returned(p)].last = "ok"
             /\ \A s \in 0..(Returned(p) - 1) :
                   /\ evals[p][s].n = evals[p][Returned(p)].n
                   /\ evals[p][s].last \in {"skip", "fail"}]_vars

\* under FIRST a call starts at index 0 although the last call returned
\* server 1
C20_Witness ==
    /\ strategy = FIRST /\ lastUsed = 1
    /\ \E p \in Procs :
          /\ pc[p] = "fas_check" /\ fas[p].starting = 0
          /\ fas[p].i = 0 /\ fas[p].index = 0

\* C21: lastUsed is always in -1..N-1; it changes only in the step in which
\* a serverPool.Get call returns a server, every such step sets it to the
\* index of the server returned, and a call that ends with the error "no
\* active ldap server found" leaves it as it was.
C21_LastUsedFrame ==
    /\ [](lastUsed \in -1..(pool_size - 1))
    /\ [][lastUsed' # lastUsed =>
             \E p \in Procs : /\ pc[p] = "get_ret" /\ pc'[p] = "idle"
                              /\ fas'[p].res = "ok"
                              /\ lastUsed' = Returned(p)]_vars
    /\ [][\A p \in Procs :
             /\ (pc[p] = "get_ret" /\ pc'[p] = "idle") => lastUsed' = Returned(p)
             /\ (pc[p] \in FasPcs /\ fas'[p].res = "err") =>
                    lastUsed' = lastUsed]_vars

\* a call has ended with the error while lastUsed is still the index an
\* earlier call returned
C21_Witness ==
    /\ lastUsed = 1
    /\ \E p \in Procs : pc[p] = "idle" /\ fas[p].res = "err"

\* C23: of the Close calls that read c.conns as the open channel only one
\* closes it: the step in which a Close call goes on from its nil test never
\* finds the channel it read closed already, and never panics.
C23_CloseOnce ==
    [][\A p \in Procs : (pc[p] = "close_chan" /\ pc'[p] # pc[p]) =>
          /\ ~panicked'
          /\ ref[p] = "ch" => ~chanClosed]_vars

\* ------------------------------------------------ properties of the helpers

\* C22: when a doRequest call that acquired a connection has returned, the
\* Close of the wrapper it acquired has been called.
C22_AcquiredConnGivenBack ==
    \A p \in Procs :
       (hreq[p].stage = "done" /\ hreq[p].w # 0) => wraps[hreq[p].w].closes >= 1

\* C24: a doRequest call sends at most one response line, and when it has
\* returned it has sent exactly one, which carries the id of its request
\* line (none for a line without id).
C24_OneResponsePerRequest ==
    \A p \in Procs :
       /\ Len(hreq[p].resp) <= 1
       /\ hreq[p].stage = "done" =>
             /\ Len(hreq[p].resp) = 1
             /\ hreq[p].resp[1].id = hreq[p].id

====
